---- MODULE Spec2Model ----
(***************************************************************************)
(* Task tracker: the SQLite task store (src/task_tracker/database.py) and  *)
(* the Slack controller that drives it (src/app.py).                       *)
(*                                                                         *)
(* Timestamps are the strings _utcnow() produces, "%Y-%m-%dT%H:%M:%S":     *)
(* fixed width, one-second resolution, ordered as text exactly as the      *)
(* whole seconds they spell.  They are modelled by that number of seconds; *)
(* two calls inside the same second read the same value.                   *)
(***************************************************************************)
EXTENDS Integers, Sequences, FiniteSets, TLC

VARIABLES
    tasks,      \* the rows of table "tasks": id -> row
    seq,        \* sqlite_sequence of the AUTOINCREMENT key: largest id ever used
    clock,      \* the UTC wall clock, in whole seconds
    last,       \* the last repository call: its name, arguments, result and error
    cleared,    \* history of the repository calls: id -> the completed_at value that the
                \* last clearing update_checkmarks call erased
    pager,      \* the filter of a listing and the pages _fetch_tasks_page has returned for it
    slack,      \* the workspace: the task messages it shows, the next message timestamp
    event,      \* the last event the controller handled: its input and what it sent out
    handlers    \* the listener threads: the handler each one runs, the call it has
                \* reached and the handler's local variables

vars == <<tasks, seq, clock, last, cleared, pager, slack, event, handlers>>

\* what no repository call touches
outside == <<pager, slack, event, handlers>>

\* ---------------------------------------------------------------- bounds
MaxTasks == 2       \* rows ever inserted
MaxClock == 2       \* seconds the clock may advance
MaxPageSize == 2    \* largest page size asked for
MaxLen == 3         \* longest text of a mention event or of a title field, in tokens
DayLength == 2      \* seconds in one day of the clock
MaxHandlers == 2    \* listener threads that run handlers at the same time

\* ---------------------------------------------------------------- values
None == -1          \* Python None / SQL NULL in an optional column
NoId == 0           \* no id argument (ids start at 1)

\* A string is the sequence of its characters.
Empty == << >>
FixLogin == <<"f", "i", "x">>
Details == <<"d">>
NewTask == <<"N", "e", "w", " ", "t", "a", "s", "k">>

Users == {"U1", "U2", "U3"}
TasksChannel == "tasks"     \* the configured TASKS_CHANNEL
PostedChannel == "C1"       \* the channel id Slack answers a post with
MessageTs == {1}            \* Slack message timestamps (opaque handles)

\* creation arguments: <<title, description, developer_id, project_manager_id>>
Requests == {<<FixLogin, Empty, "U1", "U2">>, <<NewTask, Details, "U2", "U2">>}

Ids == 1..MaxTasks

Handlers == 1..MaxHandlers

\* ---------------------------------------------------------------- the store
_utcnow == clock

\* Row with the schema default of developer_checked set to 1
RowDefaultChecked(id, title, description, developer_id, project_manager_id, created_at, channel_id) ==
    [id |-> id,
     title |-> title,
     description |-> description,
     developer_id |-> developer_id,
     project_manager_id |-> project_manager_id,
     created_at |-> created_at,
     completed_at |-> None,
     developer_checked |-> TRUE,
     project_manager_checked |-> FALSE,
     channel_id |-> channel_id,
     message_ts |-> None]

\* the row INSERT writes: the columns it names, the schema's defaults for the rest
Row(id, title, description, developer_id, project_manager_id, created_at, channel_id) ==
    [id |-> id,
     title |-> title,
     description |-> description,
     developer_id |-> developer_id,
     project_manager_id |-> project_manager_id,
     created_at |-> created_at,
     completed_at |-> None,
     developer_checked |-> FALSE,
     project_manager_checked |-> FALSE,
     channel_id |-> channel_id,
     message_ts |-> None]

Insert(t, row) == [i \in DOMAIN t \cup {row.id} |-> IF i = row.id THEN row ELSE t[i]]

\* Remove with the comparison id <= ? in place of id = ?
RemoveUpTo(t, id) == [i \in {j \in DOMAIN t : j > id} |-> t[i]]

\* DELETE FROM tasks WHERE id = ?
Remove(t, id) == [i \in DOMAIN t \ {id} |-> t[i]]

\* SetReference whose UPDATE has no WHERE clause
SetReferenceEvery(t, id, channel_id, message_ts) ==
    [i \in DOMAIN t |-> [t[i] EXCEPT !.channel_id = channel_id, !.message_ts = message_ts]]

\* UPDATE tasks SET channel_id = ?, message_ts = ? WHERE id = ?
SetReference(t, id, channel_id, message_ts) ==
    [i \in DOMAIN t |->
        IF i = id
        THEN [t[i] EXCEPT !.channel_id = channel_id, !.message_ts = message_ts]
        ELSE t[i]]

\* the record of one repository call: ret is <<row>> when a task is returned
Call(op, id, args, ret, err) == [op |-> op, id |-> id, args |-> args, ret |-> ret, err |-> err]

\* get_task on table t
GetTask(t, id) ==
    IF id \in DOMAIN t
    THEN Call("get_task", id, << >>, <<t[id]>>, "")
    ELSE Call("get_task", id, << >>, << >>, "KeyError")

\* CompletedAt that keeps the stored value when a flag is false
CompletedAtKept(existing, developer_checked, project_manager_checked) ==
    IF developer_checked /\ project_manager_checked
    THEN IF existing.completed_at # None THEN existing.completed_at ELSE _utcnow
    ELSE existing.completed_at

\* CompletedAt that takes a new timestamp on every completing update
CompletedAtRetaken(existing, developer_checked, project_manager_checked) ==
    IF developer_checked /\ project_manager_checked THEN _utcnow ELSE None

\* CompletedAt that stamps a completion with the row's creation time
CompletedAtCreated(existing, developer_checked, project_manager_checked) ==
    IF developer_checked /\ project_manager_checked
    THEN IF existing.completed_at # None THEN existing.completed_at ELSE existing.created_at
    ELSE None

\* completed_at as update_checkmarks computes it from the row it read
CompletedAt(existing, developer_checked, project_manager_checked) ==
    IF developer_checked /\ project_manager_checked
    THEN IF existing.completed_at # None THEN existing.completed_at ELSE _utcnow
    ELSE None

\* SetCheckmarks whose UPDATE also writes the current time into created_at
SetCheckmarksRetimed(t, id, developer_checked, project_manager_checked) ==
    [i \in DOMAIN t |->
        IF i = id
        THEN [t[i] EXCEPT
                !.developer_checked = developer_checked,
                !.project_manager_checked = project_manager_checked,
                !.created_at = _utcnow,
                !.completed_at = CompletedAt(t[id], developer_checked, project_manager_checked)]
        ELSE t[i]]

\* UPDATE tasks SET developer_checked, project_manager_checked, completed_at WHERE id = ?
SetCheckmarks(t, id, developer_checked, project_manager_checked) ==
    [i \in DOMAIN t |->
        IF i = id
        THEN [t[i] EXCEPT
                !.developer_checked = developer_checked,
                !.project_manager_checked = project_manager_checked,
                !.completed_at = CompletedAt(t[id], developer_checked, project_manager_checked)]
        ELSE t[i]]

\* the completion time a clearing update erases, remembered per task
Cleared(c, old, new, id) ==
    IF old[id].completed_at # None /\ new[id].completed_at = None
    THEN [c EXCEPT ![id] = old[id].completed_at]
    ELSE c

TypeOK ==
    /\ seq \in 0..MaxTasks
    /\ clock \in 0..MaxClock
    /\ DOMAIN tasks \subseteq 1..seq

\* no page fetched yet
NoPages == [status |-> "any", start |-> None, end |-> None, page_size |-> 0,
            page |-> 0, rows |-> << >>, total |-> 0]

\* an event's record: who asked for what, the reply to the requester, the permission
\* warnings sent to the requester, the notifications sent to the task's channel, the
\* exception the handler let escape and the outbound calls Slack answered with an error
Event(handler, user, task_id, args, reply, warnings, notices, raised, failed) ==
    [handler |-> handler, user |-> user, task_id |-> task_id, args |-> args,
     reply |-> reply, warnings |-> warnings, notices |-> notices, raised |-> raised,
     failed |-> failed]

NoEvent == Event("none", "", NoId, << >>, "", {}, {}, "", {})

\* the local variables of the handler a listener thread runs: the call it makes next
\* (pc), the event's user, task id and payload, the task its get_task returned (<<row>>),
\* the completed_at value update_checkmarks computed, the reply to the requester, the
\* notifications posted, whether chat_delete was called, the exception that ended it
Local(handler, pc, user, task_id, args, task, completed_at, reply, notices, removed, raised) ==
    [handler |-> handler, pc |-> pc, user |-> user, task_id |-> task_id, args |-> args,
     task |-> task, completed_at |-> completed_at, reply |-> reply, notices |-> notices,
     removed |-> removed, raised |-> raised]

\* a listener thread with no event to handle
Idle == Local("none", "idle", "", NoId, << >>, << >>, None, "", {}, FALSE, "")

NoHandlers == [h \in Handlers |-> Idle]

\* a workspace with no task message; timestamps are handed out in order
NoSlack == [messages |-> << >>, ts |-> 1]

Init ==
    /\ slack = NoSlack
    /\ event = NoEvent
    /\ handlers = NoHandlers
    /\ tasks = << >>
    /\ seq = 0
    /\ clock = 0
    /\ last = Call("init", NoId, << >>, << >>, "")
    /\ cleared = [i \in Ids |-> None]
    /\ pager = NoPages

\* the wall clock reaches the next second
Tick ==
    /\ clock < MaxClock
    /\ clock' = clock + 1
    /\ last' = Call("tick", NoId, << >>, << >>, "")
    /\ UNCHANGED <<tasks, seq, cleared>>
    /\ UNCHANGED outside

\* NextId of a key declared without AUTOINCREMENT: one more than the largest id stored
NextIdAfterLargestStored(t, s) ==
    IF DOMAIN t = {} THEN 1 ELSE (CHOOSE i \in DOMAIN t : \A j \in DOMAIN t : j <= i) + 1

\* the id INTEGER PRIMARY KEY AUTOINCREMENT gives the inserted row: one more than the
\* largest id the table has ever held, which sqlite_sequence (s) records
NextId(t, s) == s + 1

create_task ==
    /\ \E r \in Requests, channel_id \in {TasksChannel} :
           /\ seq < MaxTasks
           /\ LET row == Row(NextId(tasks, seq), r[1], r[2], r[3], r[4], _utcnow, channel_id)
              IN /\ tasks' = Insert(tasks, row)
                 /\ seq' = row.id
                 /\ last' = Call("create_task", row.id, << >>, <<tasks'[row.id]>>, "")
           /\ UNCHANGED <<clock, cleared>>
    /\ UNCHANGED outside

get_task ==
    /\ \E task_id \in Ids :
           /\ last' = GetTask(tasks, task_id)
           /\ UNCHANGED <<tasks, seq, clock, cleared>>
    /\ UNCHANGED outside

update_message_reference ==
    /\ \E task_id \in Ids, channel_id \in {PostedChannel}, message_ts \in MessageTs :
           /\ tasks' = SetReference(tasks, task_id, channel_id, message_ts)
           /\ last' = Call("update_message_reference", task_id, <<channel_id, message_ts>>, << >>, "")
           /\ UNCHANGED <<seq, clock, cleared>>
    /\ UNCHANGED outside

update_checkmarks ==
    /\ \E task_id \in Ids, developer_checked \in BOOLEAN, project_manager_checked \in BOOLEAN :
           LET args == <<developer_checked, project_manager_checked>>
           IN IF GetTask(tasks, task_id).err # ""
              THEN /\ last' = Call("update_checkmarks", task_id, args, << >>, "KeyError")
                   /\ UNCHANGED <<tasks, seq, clock, cleared>>
              ELSE /\ tasks' = SetCheckmarks(tasks, task_id, developer_checked,
                                             project_manager_checked)
                   /\ cleared' = Cleared(cleared, tasks, tasks', task_id)
                   /\ last' = Call("update_checkmarks", task_id, args,
                                   GetTask(tasks', task_id).ret, "")
                   /\ UNCHANGED <<seq, clock>>
    /\ UNCHANGED outside

delete_task ==
    /\ \E task_id \in Ids :
           IF task_id \notin DOMAIN tasks
           THEN /\ last' = Call("delete_task", task_id, << >>, << >>, "KeyError")
                /\ UNCHANGED <<tasks, seq, clock, cleared>>
           ELSE /\ tasks' = Remove(tasks, task_id)
                /\ last' = Call("delete_task", task_id, << >>, << >>, "")
                /\ UNCHANGED <<seq, clock, cleared>>
    /\ UNCHANGED outside

Next ==
    \/ Tick
    \/ create_task
    \/ get_task
    \/ update_message_reference
    \/ update_checkmarks
    \/ delete_task

Spec == Init /\ [][Next]_vars

\* ---------------------------------------------------------------- queries

Statuses == {"any", "pending", "completed"}     \* "any": None or any other text
Starts == {None, 1}                             \* created_at lower bound, or none given
Ends == {None, MaxClock}                        \* created_at upper bound, or none given
PageSizes == 1..MaxPageSize

Min(a, b) == IF a < b THEN a ELSE b

\* _build_filters with the pending condition NOT developer_checked AND NOT project_manager_checked
MatchesNeither(row, status, start, end) ==
    /\ status = "completed" => (row.developer_checked /\ row.project_manager_checked)
    /\ status = "pending" => (~row.developer_checked /\ ~row.project_manager_checked)
    /\ start # None => row.created_at >= start
    /\ end # None => row.created_at < end

\* the WHERE clause _build_filters assembles, applied to one row
Matches(row, status, start, end) ==
    /\ status = "completed" => (row.developer_checked /\ row.project_manager_checked)
    /\ status = "pending" => ~(row.developer_checked /\ row.project_manager_checked)
    /\ start # None => row.created_at >= start
    /\ end # None => row.created_at < end

\* First under ORDER BY created_at ASC
FirstOldest(t, S) ==
    CHOOSE i \in S : \A j \in S :
        \/ t[i].created_at < t[j].created_at
        \/ (t[i].created_at = t[j].created_at /\ i <= j)

\* the row a query returns first: the greatest created_at, and among rows of the same
\* created_at the one the table scan meets first (SQLite's sorter is stable and the
\* scan runs in rowid order)
First(t, S) ==
    CHOOSE i \in S : \A j \in S :
        \/ t[i].created_at > t[j].created_at
        \/ (t[i].created_at = t[j].created_at /\ i <= j)

\* ORDER BY created_at DESC over the rows with ids S
RECURSIVE OrderBy(_, _)
OrderBy(t, S) ==
    IF S = {} THEN << >> ELSE <<t[First(t, S)]>> \o OrderBy(t, S \ {First(t, S)})

\* Slice that skips one row more than OFFSET asks
SliceSkipping(rows, limit, offset) ==
    IF limit # None
    THEN SubSeq(rows, (IF offset # None THEN offset + 1 ELSE 0) + 1,
                Min(Len(rows), (IF offset # None THEN offset + 1 ELSE 0) + limit))
    ELSE IF offset # None
         THEN SubSeq(rows, offset + 1, Len(rows))
         ELSE rows

\* LIMIT ? OFFSET ? / LIMIT -1 OFFSET ? as list_tasks appends them
Slice(rows, limit, offset) ==
    IF limit # None
    THEN SubSeq(rows, (IF offset # None THEN offset ELSE 0) + 1,
                Min(Len(rows), (IF offset # None THEN offset ELSE 0) + limit))
    ELSE IF offset # None
         THEN SubSeq(rows, offset + 1, Len(rows))
         ELSE rows

\* list_tasks on table t
ListTasks(t, status, start, end, limit, offset) ==
    Slice(OrderBy(t, {i \in DOMAIN t : Matches(t[i], status, start, end)}), limit, offset)

\* CountTasks without the upper bound in its WHERE clause
CountTasksNoEnd(t, status, start, end) ==
    Cardinality({i \in DOMAIN t : Matches(t[i], status, start, None)})

\* count_tasks on table t
CountTasks(t, status, start, end) ==
    Cardinality({i \in DOMAIN t : Matches(t[i], status, start, end)})

\* _fetch_tasks_page: the page's rows and the filter's total
FetchTasksPage(t, filters, page) ==
    LET page_size == IF filters.page_size = 0 THEN 5 ELSE filters.page_size
        p == IF page > 1 THEN page ELSE 1
        offset == (p - 1) * page_size
    IN [tasks |-> ListTasks(t, filters.status, filters.start, filters.end, page_size, offset),
        total |-> CountTasks(t, filters.status, filters.start, filters.end)]

\* created_at never decreases along the ids: the clock never goes back
Monotone(D, created) == \A i, j \in D : i < j => created[i] <= created[j]

\* a table as create_task and update_checkmarks leave it
StoredRow(i, created_at, developer_checked, project_manager_checked) ==
    [Row(i, FixLogin, Empty, "U1", "U2", created_at, TasksChannel) EXCEPT
        !.developer_checked = developer_checked,
        !.project_manager_checked = project_manager_checked,
        !.completed_at = IF developer_checked /\ project_manager_checked
                         THEN created_at ELSE None]

\* the filter a pager holds
Filters(pg) == [status |-> pg.status, start |-> pg.start, end |-> pg.end,
                page_size |-> pg.page_size]

\* a store, and the filter the queries of this behaviour are asked with
QueryInit ==
    /\ slack = NoSlack
    /\ event = NoEvent
    /\ handlers = NoHandlers
    /\ \E D \in SUBSET Ids :
         \E created \in [D -> 0..MaxClock], dev \in [D -> BOOLEAN], pm \in [D -> BOOLEAN] :
            /\ Monotone(D, created)
            /\ tasks = [i \in D |-> StoredRow(i, created[i], dev[i], pm[i])]
    /\ seq = MaxTasks
    /\ clock = MaxClock
    /\ last = Call("init", NoId, << >>, << >>, "")
    /\ cleared = [i \in Ids |-> None]
    /\ \E status \in Statuses, start \in Starts, end \in Ends, page_size \in PageSizes :
         pager = [NoPages EXCEPT !.status = status, !.start = start, !.end = end,
                                 !.page_size = page_size]

list_tasks ==
    /\ \E limit \in {None, 1}, offset \in {None, 1} :
            last' = Call("list_tasks", NoId, <<limit, offset>>,
                         ListTasks(tasks, pager.status, pager.start, pager.end, limit, offset),
                         "")
    /\ pager' = [pager EXCEPT !.page = 0, !.rows = << >>, !.total = 0]
    /\ UNCHANGED <<tasks, seq, clock, cleared, slack, event, handlers>>

count_tasks ==
    /\ last' = Call("count_tasks", NoId, << >>,
                    <<CountTasks(tasks, pager.status, pager.start, pager.end)>>, "")
    /\ pager' = [pager EXCEPT !.page = 0, !.rows = << >>, !.total = 0]
    /\ UNCHANGED <<tasks, seq, clock, cleared, slack, event, handlers>>

\* page 1 of the filter, or the page after the last one fetched while rows remain
_fetch_tasks_page ==
    /\ \E page \in 1..(MaxTasks + 1) :
            /\ \/ page = 1
               \/ /\ page = pager.page + 1
                  /\ pager.page > 0
                  /\ pager.page * pager.page_size < pager.total
            /\ LET got == FetchTasksPage(tasks, Filters(pager), page)
               IN pager' = [pager EXCEPT
                              !.page = page,
                              !.rows = (IF page = 1 THEN << >> ELSE pager.rows) \o got.tasks,
                              !.total = got.total]
    /\ last' = Call("_fetch_tasks_page", NoId, << >>, << >>, "")
    /\ UNCHANGED <<tasks, seq, clock, cleared, slack, event, handlers>>

QueryNext ==
    \/ list_tasks
    \/ count_tasks
    \/ _fetch_tasks_page

QuerySpec == QueryInit /\ [][QueryNext]_vars

\* ---------------------------------------------------------------- the controller

NoUser == ""                \* no user id: None, or a field the payload lacks
BotUser == "B"              \* context["bot_user_id"]
MentionChannel == "general" \* the channel an app_mention event comes from

\* the user id inside a mention token "<@...>"; every other token is one character
MentionId == [tok \in {"<@B>", "<@U1>", "<@U2>", "<@U3>"} |->
                 CASE tok = "<@B>" -> BotUser
                   [] tok = "<@U1>" -> "U1"
                   [] tok = "<@U2>" -> "U2"
                   [] tok = "<@U3>" -> "U3"]

IsMention(tok) == tok \in DOMAIN MentionId

\* the texts of the app_mention events
Texts == {<<"<@B>", " ", "<@U1>", " ", "<@U2>", " ", "f", "i", "x">>,
          <<"<@B>", " ", "<@U2>", " ">>,
          <<"<@B>", " ", "f", "i", "x">>}

\* a text field of the create-task modal as _text_input_value reads it: NoText when the
\* payload holds no string there (None), Text(str) when it holds str
NoText == << >>
Text(str) == <<str>>

\* the title and description fields of the create-task modal
ModalTitles == {NoText}
ModalDescriptions == {NoText}

\* str.strip()
RECURSIVE Strip(_)
Strip(str) ==
    IF str = << >> THEN str
    ELSE IF Head(str) = " " THEN Strip(Tail(str))
    ELSE IF str[Len(str)] = " " THEN Strip(SubSeq(str, 1, Len(str) - 1))
    ELSE str

\* BOT_MENTION_PATTERN.findall(text)
RECURSIVE FindMentions(_)
FindMentions(text) ==
    IF text = << >> THEN << >>
    ELSE (IF IsMention(Head(text)) THEN <<MentionId[Head(text)]>> ELSE << >>)
         \o FindMentions(Tail(text))

\* BOT_MENTION_PATTERN.sub("", text)
RECURSIVE RemoveMentions(_)
RemoveMentions(text) ==
    IF text = << >> THEN << >>
    ELSE (IF IsMention(Head(text)) THEN << >> ELSE <<Head(text)>>)
         \o RemoveMentions(Tail(text))

\* the mentions that are not the bot's own
RECURSIVE Assignees(_, _)
Assignees(mention_ids, bot_user_id) ==
    IF mention_ids = << >> THEN << >>
    ELSE (IF Head(mention_ids) = bot_user_id THEN << >> ELSE <<Head(mention_ids)>>)
         \o Assignees(Tail(mention_ids), bot_user_id)

\* _parse_task_request
ParseTaskRequest(text, bot_user_id) ==
    LET assignee_mentions == Assignees(FindMentions(text), bot_user_id)
        developer_id == IF assignee_mentions # << >> THEN assignee_mentions[1] ELSE NoUser
    IN [developer_id |-> developer_id,
        project_manager_id |-> IF Len(assignee_mentions) > 1
                               THEN assignee_mentions[2] ELSE developer_id,
        description |-> Strip(RemoveMentions(text))]

\* value or "New task"
OrNewTask(value) == IF value = Empty THEN NewTask ELSE value

\* _text_input_value(...) or default: None and "" are both false
OrDefault(field, default) == IF field = NoText \/ field[1] = Empty THEN default ELSE field[1]

\* chat_postMessage of a task's message: the workspace shows it under a new timestamp
Post(sl, task_id) ==
    [messages |-> [ts \in DOMAIN sl.messages \cup {sl.ts} |->
                      IF ts = sl.ts THEN [channel |-> PostedChannel, task_id |-> task_id]
                      ELSE sl.messages[ts]],
     ts |-> sl.ts + 1]

\* chat_delete(channel, ts): the message, if the workspace shows it, is gone
Unpost(sl, channel, ts) ==
    [sl EXCEPT !.messages =
        [m \in {x \in DOMAIN sl.messages : ~(x = ts /\ sl.messages[x].channel = channel)} |->
            sl.messages[m]]]

\* Committed that undoes the event's writes when one of its Slack calls failed
CommittedUnlessFailed(before, written, failed) == IF failed = {} THEN written ELSE before

\* the table an event leaves: every repository call commits when its connection block
\* ends, before the handler makes its Slack calls, whichever of them fail
Committed(before, written, failed) == written

\* create_task, _post_task_message and update_message_reference as both creating
\* handlers run them: chat_postMessage succeeds, or fails and no reference is stored.
\* handle_app_mention confirms only a posted task, handle_modal_submission notifies
\* the creator either way.
CreateAndPost(handler, user, args, title, description, developer_id, project_manager_id) ==
    LET row == Row(NextId(tasks, seq), title, description, developer_id, project_manager_id,
                   _utcnow, TasksChannel)
        created == Insert(tasks, row)
    IN /\ seq < MaxTasks
       /\ seq' = row.id
       /\ \/ /\ slack' = Post(slack, row.id)
             /\ tasks' = SetReference(created, row.id, PostedChannel, slack.ts)
             /\ last' = Call("update_message_reference", row.id,
                             <<PostedChannel, slack.ts>>, << >>, "")
             /\ event' = Event(handler, user, row.id, args, "created", {}, {}, "", {})
          \/ /\ slack' = slack
             /\ tasks' = Committed(tasks, created, {"chat_postMessage"})
             /\ last' = Call("create_task", row.id, << >>, <<created[row.id]>>, "")
             /\ event' = Event(handler, user, row.id, args,
                               IF handler = "app_mention" THEN "" ELSE "created", {}, {}, "",
                               {"chat_postMessage"})

\* handle_app_mention on an event whose text is one of texts
HandleAppMention(texts) ==
    /\ \E channel \in {MentionChannel, ""}, text \in texts, author_id \in {"U3", NoUser} :
         LET parsed == ParseTaskRequest(text, BotUser)
         IN IF channel = ""
            THEN /\ event' = Event("app_mention", author_id, NoId, <<text>>, "", {}, {}, "", {})
                 /\ last' = Call("none", NoId, << >>, << >>, "")
                 /\ UNCHANGED <<tasks, seq, slack>>
            ELSE IF parsed.developer_id = NoUser
            THEN /\ event' = Event("app_mention", author_id, NoId, <<text>>,
                                   "mention a developer", {}, {}, "", {})
                 /\ last' = Call("none", NoId, << >>, << >>, "")
                 /\ UNCHANGED <<tasks, seq, slack>>
            ELSE IF author_id = NoUser
            THEN /\ event' = Event("app_mention", author_id, NoId, <<text>>,
                                   "unknown creator", {}, {}, "", {})
                 /\ last' = Call("none", NoId, << >>, << >>, "")
                 /\ UNCHANGED <<tasks, seq, slack>>
            ELSE CreateAndPost("app_mention", author_id, <<text>>,
                               OrNewTask(parsed.description), Empty,
                               parsed.developer_id, parsed.project_manager_id)
    /\ UNCHANGED <<clock, cleared, pager, handlers>>

handle_app_mention == HandleAppMention(Texts)

\* handle_modal_submission on a view whose title and description fields are among
\* titles and descriptions
HandleModalSubmission(titles, descriptions) ==
    /\ \E developer \in {NoUser, "U2"}, pm \in {NoUser, "U2"}, title_input \in titles,
          description_input \in descriptions, user \in {"U3"} :
         LET args == <<title_input, description_input, developer, pm>>
         IN IF developer = NoUser
            THEN /\ event' = Event("modal_submission", user, NoId, args, "", {}, {}, "", {})
                 /\ last' = Call("none", NoId, << >>, << >>, "")
                 /\ UNCHANGED <<tasks, seq, slack>>
            ELSE CreateAndPost("modal_submission", user, args,
                               Strip(OrDefault(title_input, NewTask)),
                               Strip(OrDefault(description_input, Empty)), developer,
                               IF pm = NoUser THEN developer ELSE pm)
    /\ UNCHANGED <<clock, cleared, pager, handlers>>

handle_modal_submission == HandleModalSubmission(ModalTitles, ModalDescriptions)

\* Permitted that lets any user change the developer flag
PermittedAnyDeveloper(task, user_id, developer_checked, project_manager_checked) ==
    <<developer_checked,
      IF project_manager_checked # task.project_manager_checked
         /\ user_id # task.project_manager_id
      THEN task.project_manager_checked ELSE project_manager_checked>>

\* Permitted that also puts back every uncheck: a checked flag stays checked
PermittedOnce(task, user_id, developer_checked, project_manager_checked) ==
    <<IF developer_checked # task.developer_checked
         /\ (user_id # task.developer_id \/ task.developer_checked)
      THEN task.developer_checked ELSE developer_checked,
      IF project_manager_checked # task.project_manager_checked
         /\ (user_id # task.project_manager_id \/ task.project_manager_checked)
      THEN task.project_manager_checked ELSE project_manager_checked>>

\* the flags handle_checkbox_action passes on: a change the requester does not own is
\* put back to the stored value
Permitted(task, user_id, developer_checked, project_manager_checked) ==
    <<IF developer_checked # task.developer_checked /\ user_id # task.developer_id
      THEN task.developer_checked ELSE developer_checked,
      IF project_manager_checked # task.project_manager_checked
         /\ user_id # task.project_manager_id
      THEN task.project_manager_checked ELSE project_manager_checked>>

\* the ephemeral warnings handle_checkbox_action sends to the requester
Warnings(task, user_id, developer_checked, project_manager_checked) ==
    (IF developer_checked # task.developer_checked /\ user_id # task.developer_id
     THEN {"developer"} ELSE {})
    \cup (IF project_manager_checked # task.project_manager_checked
             /\ user_id # task.project_manager_id
          THEN {"project manager"} ELSE {})

\* Notices without the test of the previous value of each flag
NoticesWhenChecked(task, updated_task, developer_checked, project_manager_checked) ==
    (IF developer_checked THEN {"developer done"} ELSE {})
    \cup (IF project_manager_checked THEN {"approved"} ELSE {})
    \cup (IF updated_task.completed_at # None /\ task.completed_at = None
          THEN {"completed"} ELSE {})

\* the channel notifications handle_checkbox_action posts after the update
Notices(task, updated_task, developer_checked, project_manager_checked) ==
    (IF developer_checked /\ ~task.developer_checked THEN {"developer done"} ELSE {})
    \cup (IF project_manager_checked /\ ~task.project_manager_checked
          THEN {"approved"} ELSE {})
    \cup (IF updated_task.completed_at # None /\ task.completed_at = None
          THEN {"completed"} ELSE {})

\* the Slack calls one checkbox event makes: the warnings, the update of the task's
\* message when the task has one, the notifications
Attempted(updated_task, warnings, notices) ==
    (IF warnings # {} THEN {"chat_postEphemeral"} ELSE {})
    \cup (IF updated_task.message_ts # None THEN {"chat_update"} ELSE {})
    \cup (IF notices # {} THEN {"chat_postMessage"} ELSE {})

\* one checkbox event: the task is read, the changes the requester does not own are put
\* back, both flags are written, the message is refreshed and the notifications are
\* posted.  Slack answers every call of the event, or fails every one of them
HandleCheckboxAction(task_id, user_id, developer_checked, project_manager_checked) ==
    /\ LET args == <<developer_checked, project_manager_checked>>
       IN IF GetTask(tasks, task_id).err # ""
          THEN /\ event' = Event("checkbox", user_id, task_id, args, "", {}, {},
                                 "KeyError", {})
               /\ last' = GetTask(tasks, task_id)
               /\ UNCHANGED tasks
          ELSE LET task == tasks[task_id]
                   flags == Permitted(task, user_id, developer_checked,
                                      project_manager_checked)
                   warnings == Warnings(task, user_id, developer_checked,
                                        project_manager_checked)
                   updated == SetCheckmarks(tasks, task_id, flags[1], flags[2])
                   notices == Notices(task, updated[task_id], flags[1], flags[2])
               IN \E failed \in {{}, Attempted(updated[task_id], warnings, notices)} :
                    /\ tasks' = Committed(tasks, updated, failed)
                    /\ last' = Call("update_checkmarks", task_id, flags,
                                    GetTask(updated, task_id).ret, "")
                    /\ event' = Event("checkbox", user_id, task_id, args, "",
                                      warnings, notices, "", failed)
    /\ UNCHANGED <<seq, clock, pager, slack, handlers>>

\* The history in cleared is kept by the repository's own specification and by the
\* specification of the toggles (checkbox_toggle) only.
handle_checkbox_action ==
    /\ \E task_id \in Ids, user_id \in Users, developer_checked \in BOOLEAN,
          project_manager_checked \in BOOLEAN :
         HandleCheckboxAction(task_id, user_id, developer_checked, project_manager_checked)
    /\ UNCHANGED cleared

\* MayDelete that lets every user delete
MayDeleteAnyone(task, user_id) == TRUE

\* the permission test of the delete command
MayDelete(task, user_id) == user_id \in {task.developer_id, task.project_manager_id}

\* the Slack calls of a delete: the removal of the task's message when the task has
\* one, the notification
DeleteAttempted(task) ==
    (IF task.message_ts # None THEN {"chat_delete"} ELSE {}) \cup {"chat_postMessage"}

\* /tasks delete <task_id>; task_id = NoId: no number given.  Slack answers both calls
\* of the event, or fails both
delete_command ==
    \E task_id \in Ids \cup {NoId}, user_id \in Users :
         IF task_id = NoId
         THEN /\ event' = Event("delete", user_id, task_id, << >>, "usage", {}, {}, "", {})
              /\ last' = Call("none", NoId, << >>, << >>, "")
              /\ UNCHANGED <<tasks, slack>>
         ELSE IF GetTask(tasks, task_id).err # ""
         THEN /\ event' = Event("delete", user_id, task_id, << >>, "not found", {}, {}, "",
                                {})
              /\ last' = GetTask(tasks, task_id)
              /\ UNCHANGED <<tasks, slack>>
         ELSE IF ~MayDelete(tasks[task_id], user_id)
         THEN /\ event' = Event("delete", user_id, task_id, << >>, "refused", {}, {}, "",
                                {})
              /\ last' = GetTask(tasks, task_id)
              /\ UNCHANGED <<tasks, slack>>
         ELSE /\ last' = Call("delete_task", task_id, << >>, << >>, "")
              /\ \E failed \in {{}, DeleteAttempted(tasks[task_id])} :
                    /\ tasks' = Committed(tasks, Remove(tasks, task_id), failed)
                    /\ slack' = IF tasks[task_id].message_ts # None
                                   /\ "chat_delete" \notin failed
                                THEN Unpost(slack, tasks[task_id].channel_id,
                                            tasks[task_id].message_ts)
                                ELSE slack
                    /\ event' = Event("delete", user_id, task_id, << >>, "deleted", {},
                                      {"deleted"}, "", failed)

\* /tasks show <task_id>
show_command ==
    \E task_id \in Ids \cup {NoId}, user_id \in {"U3"} :
         /\ event' = Event("show", user_id, task_id, << >>,
                           IF task_id = NoId THEN "usage"
                           ELSE IF GetTask(tasks, task_id).err # "" THEN "not found"
                           ELSE "details", {}, {}, "", {})
         /\ last' = IF task_id = NoId THEN Call("none", NoId, << >>, << >>, "")
                    ELSE GetTask(tasks, task_id)
         /\ UNCHANGED <<tasks, slack>>

\* /tasks and /tasks list: the filter modal is opened, or the requester is told why not
list_command ==
    \E user_id \in {"U3"}, reply \in {"try again", "filters opened", "failed to open"} :
         /\ event' = Event("list", user_id, NoId, << >>, reply, {}, {}, "", {})
         /\ last' = Call("none", NoId, << >>, << >>, "")
         /\ UNCHANGED <<tasks, slack>>

\* /tasks <anything else>: the tasks of the status the text names, or all of them
status_command ==
    \E user_id \in {"U3"}, status \in Statuses :
         LET found == ListTasks(tasks, status, None, None, None, None)
         IN /\ event' = Event("status", user_id, NoId, <<status>>,
                              IF found = << >> THEN "no tasks found" ELSE "tasks", {}, {}, "",
                              {})
            /\ last' = Call("list_tasks", NoId, <<None, None>>, found, "")
            /\ UNCHANGED <<tasks, slack>>

handle_tasks_command ==
    /\ \/ delete_command
       \/ show_command
       \/ list_command
       \/ status_command
    /\ UNCHANGED <<seq, clock, cleared, pager, handlers>>

AppNext ==
    \/ handle_app_mention
    \/ handle_modal_submission
    \/ handle_checkbox_action
    \/ handle_tasks_command

AppSpec == Init /\ [][AppNext]_vars

\* ---------------------------------------------------------------- the toggles of a task

\* a row as a creating handler and update_checkmarks leave it: created from request r at
\* time 0, posted under the timestamp Slack gave its message, its flags set
PostedRow(i, r, developer_checked, project_manager_checked) ==
    [Row(i, r[1], r[2], r[3], r[4], 0, TasksChannel) EXCEPT
        !.channel_id = PostedChannel,
        !.message_ts = i,
        !.developer_checked = developer_checked,
        !.project_manager_checked = project_manager_checked,
        !.completed_at = IF developer_checked /\ project_manager_checked THEN 0 ELSE None]

\* the workspace after MaxTasks tasks were posted and the messages of the deleted ones
\* removed: task i's message has timestamp i
Shown(D) ==
    [messages |-> [ts \in D |-> [channel |-> PostedChannel, task_id |-> ts]],
     ts |-> MaxTasks + 1]

\* a store of posted tasks in any flag states, the ids of its tasks a set of Stores
PostedStore(Stores) ==
    /\ event = NoEvent
    /\ handlers = NoHandlers
    /\ \E D \in Stores :
         /\ \E r \in [D -> Requests], dev \in [D -> BOOLEAN], pm \in [D -> BOOLEAN] :
              tasks = [i \in D |-> PostedRow(i, r[i], dev[i], pm[i])]
         /\ slack = Shown(D)
    /\ seq = MaxTasks
    /\ clock = 0
    /\ last = Call("init", NoId, << >>, << >>, "")
    /\ cleared = [i \in Ids |-> None]
    /\ pager = NoPages

ToggleInit == PostedStore(SUBSET Ids)

\* handle_checkbox_action, with the history of the completion times it erases
checkbox_toggle ==
    \E task_id \in Ids, user_id \in Users, developer_checked \in BOOLEAN,
       project_manager_checked \in BOOLEAN :
         /\ HandleCheckboxAction(task_id, user_id, developer_checked,
                                 project_manager_checked)
         /\ cleared' = IF task_id \in DOMAIN tasks
                       THEN Cleared(cleared, tasks, tasks', task_id)
                       ELSE cleared

ToggleNext == checkbox_toggle

ToggleSpec == ToggleInit /\ [][ToggleNext]_vars

\* ---------------------------------------------------------------- handlers side by side
\* Bolt runs each listener on a thread of its pool, so the handlers of two events run
\* at the same time.  A handler is split at its repository calls: each call opens its
\* own connection and commits when the connection block ends, and the handler's own
\* statements between two calls touch its local variables only.  The result of a
\* handler is kept in its thread's record; event keeps the events of AppSpec.

\* thread h goes on with local variables l
Goes(h, l) == handlers' = [handlers EXCEPT ![h] = l]

\* the UPDATE of update_checkmarks with the completed_at value computed before it; a
\* WHERE clause that matches no row changes nothing
UpdateFlags(t, id, developer_checked, project_manager_checked, completed_at) ==
    [i \in DOMAIN t |->
        IF i = id
        THEN [t[i] EXCEPT
                !.developer_checked = developer_checked,
                !.project_manager_checked = project_manager_checked,
                !.completed_at = completed_at]
        ELSE t[i]]

\* DeleteTask that does not look at the row count
DeleteTaskUnchecked(t, id) == [tasks |-> Remove(t, id), err |-> ""]

\* delete_task on table t: the table it leaves, KeyError when the DELETE found no row
DeleteTask(t, id) ==
    [tasks |-> Remove(t, id), err |-> IF id \in DOMAIN t THEN "" ELSE "KeyError"]

\* the flags a checkbox handler passes to update_checkmarks: its payload, with the
\* changes its user does not own put back to the values of the task it read
Flags(l) == Permitted(l.task[1], l.user, l.args[1], l.args[2])

\* handle_checkbox_action up to its call of update_checkmarks: the task is read and the
\* flags to write are settled
checkbox_get_task(h) ==
    /\ handlers[h].pc = "idle"
    /\ \E task_id \in Ids, user_id \in Users, developer_checked \in BOOLEAN,
          project_manager_checked \in BOOLEAN :
         LET args == <<developer_checked, project_manager_checked>>
             read == GetTask(tasks, task_id)
         IN /\ last' = read
            /\ Goes(h, IF read.err # ""
                        THEN Local("checkbox", "done", user_id, task_id, args, << >>, None,
                                   "", {}, FALSE, read.err)
                        ELSE Local("checkbox", "existing", user_id, task_id, args, read.ret,
                                   None, "", {}, FALSE, ""))
    /\ UNCHANGED <<tasks, seq, clock, cleared, pager, slack, event>>

\* update_checkmarks, first connection: existing = get_task, and completed_at from it
update_checkmarks_existing(h) ==
    /\ handlers[h].pc = "existing"
    /\ LET l == handlers[h]
           read == GetTask(tasks, l.task_id)
       IN /\ last' = read
          /\ Goes(h, IF read.err # ""
                      THEN [l EXCEPT !.pc = "done", !.raised = read.err]
                      ELSE [l EXCEPT !.pc = "UPDATE",
                                     !.completed_at =
                                         CompletedAt(read.ret[1], Flags(l)[1], Flags(l)[2])])
    /\ UNCHANGED <<tasks, seq, clock, cleared, pager, slack, event>>

\* update_checkmarks, second connection: both flags and completed_at are written
update_checkmarks_UPDATE(h) ==
    /\ handlers[h].pc = "UPDATE"
    /\ LET l == handlers[h]
       IN /\ tasks' = UpdateFlags(tasks, l.task_id, Flags(l)[1], Flags(l)[2], l.completed_at)
          /\ last' = Call("update_checkmarks", l.task_id, Flags(l), << >>, "")
          /\ Goes(h, [l EXCEPT !.pc = "return"])
    /\ UNCHANGED <<seq, clock, cleared, pager, slack, event>>

\* update_checkmarks, third connection: the row is read again and returned; the handler
\* refreshes the message and posts the notifications
update_checkmarks_return(h) ==
    /\ handlers[h].pc = "return"
    /\ LET l == handlers[h]
           read == GetTask(tasks, l.task_id)
       IN /\ last' = read
          /\ Goes(h, IF read.err # ""
                      THEN [l EXCEPT !.pc = "done", !.raised = read.err]
                      ELSE [l EXCEPT !.pc = "done",
                                     !.notices = Notices(l.task[1], read.ret[1],
                                                         Flags(l)[1], Flags(l)[2])])
    /\ UNCHANGED <<tasks, seq, clock, cleared, pager, slack, event>>

\* /tasks delete <task_id> up to its call of delete_task: the task is read and the
\* permission of the requester tested
delete_get_task(h) ==
    /\ handlers[h].pc = "idle"
    /\ \E task_id \in Ids, user_id \in Users :
         LET read == GetTask(tasks, task_id)
             l == Local("delete", "done", user_id, task_id, << >>, read.ret, None, "", {},
                        FALSE, "")
         IN /\ last' = read
            /\ Goes(h, IF read.err # "" THEN [l EXCEPT !.reply = "not found"]
                        ELSE IF ~MayDelete(read.ret[1], user_id)
                        THEN [l EXCEPT !.reply = "refused"]
                        ELSE [l EXCEPT !.pc = "delete_task"])
    /\ UNCHANGED <<tasks, seq, clock, cleared, pager, slack, event>>

\* delete_task: the row is deleted, or the requester is told that there is none
delete_delete_task(h) ==
    /\ handlers[h].pc = "delete_task"
    /\ LET l == handlers[h]
           deleted == DeleteTask(tasks, l.task_id)
       IN /\ last' = Call("delete_task", l.task_id, << >>, << >>, deleted.err)
          /\ tasks' = deleted.tasks
          /\ Goes(h, IF deleted.err # ""
                      THEN [l EXCEPT !.pc = "done", !.reply = "not found"]
                      ELSE [l EXCEPT !.pc = "chat_delete"])
    /\ UNCHANGED <<seq, clock, cleared, pager, slack, event>>

\* the rest of the delete: the message of the task read, if it has one, is removed
\* (Slack answers the call or fails it), the channel is notified, the requester told
delete_notify(h) ==
    /\ handlers[h].pc = "chat_delete"
    /\ LET l == handlers[h]
           task == l.task[1]
       IN /\ \E answered \in BOOLEAN :
                slack' = IF task.message_ts # None /\ answered
                         THEN Unpost(slack, task.channel_id, task.message_ts)
                         ELSE slack
          /\ Goes(h, [l EXCEPT !.pc = "done", !.removed = (task.message_ts # None),
                                !.notices = {"deleted"}, !.reply = "deleted"])
    /\ UNCHANGED <<tasks, seq, clock, last, cleared, pager, event>>

RaceNext ==
    \E h \in Handlers :
        \/ checkbox_get_task(h)
        \/ update_checkmarks_existing(h)
        \/ update_checkmarks_UPDATE(h)
        \/ update_checkmarks_return(h)
        \/ delete_get_task(h)
        \/ delete_delete_task(h)
        \/ delete_notify(h)

\* the events of one behaviour find task 1 stored: they race for it, or name a task
\* that is not there
RaceInit == PostedStore({{1}})

RaceSpec == RaceInit /\ [][RaceNext]_vars

\* ---------------------------------------------------------------- the filter modal

\* the option of the date range select; "": none selected, "other": any other value
RangeOptions == {"", "today", "yesterday", "last_7_days", "custom", "other"}

\* the option of the status select
StatusValues == {"all", "pending", "completed"}

\* what a date picker holds: a day (counted from the clock's day 0), or nothing
Dates == {None} \cup (0..(MaxClock \div DayLength))

\* the date pickers are filled in with the custom option only
DatesFor(range_option) == IF range_option = "custom" THEN Dates ELSE {None}

\* datetime.utcnow().date()
Today == clock \div DayLength

\* to_iso(day): the timestamp of the midnight that starts the day
ToIso(day) == day * DayLength

\* the outcome of _calculate_date_range: the two bounds, or the ValueError it raises
Range2(start, end) == [error |-> "", start |-> ToIso(start), end |-> ToIso(end)]
RangeError(message) == [error |-> message, start |-> None, end |-> None]

\* CalculateDateRange without the test end_dt < start_dt
CalculateDateRangeUnordered(option, start_date, end_date) ==
    CASE option = "today" -> Range2(Today, Today + 1)
      [] option = "yesterday" -> Range2(Today - 1, Today)
      [] option = "last_7_days" -> Range2(Today - 6, Today + 1)
      [] option = "custom" ->
            IF start_date = None \/ end_date = None THEN RangeError("select both")
            ELSE Range2(start_date, end_date + 1)
      [] OTHER -> Range2(Today - 6, Today + 1)

\* _calculate_date_range
CalculateDateRange(option, start_date, end_date) ==
    CASE option = "today" -> Range2(Today, Today + 1)
      [] option = "yesterday" -> Range2(Today - 1, Today)
      [] option = "last_7_days" -> Range2(Today - 6, Today + 1)
      [] option = "custom" ->
            IF start_date = None \/ end_date = None THEN RangeError("select both")
            ELSE IF end_date < start_date THEN RangeError("end before start")
            ELSE Range2(start_date, end_date + 1)
      [] OTHER -> Range2(Today - 6, Today + 1)

\* a store, the clock at its last second, and no listing shown
FilterInit ==
    /\ slack = NoSlack
    /\ event = NoEvent
    /\ handlers = NoHandlers
    /\ \E D \in SUBSET Ids :
         \E created \in [D -> 0..MaxClock], dev \in [D -> BOOLEAN], pm \in [D -> BOOLEAN] :
            /\ Monotone(D, created)
            /\ tasks = [i \in D |-> StoredRow(i, created[i], dev[i], pm[i])]
    /\ seq = MaxTasks
    /\ clock = MaxClock
    /\ last = Call("init", NoId, << >>, << >>, "")
    /\ cleared = [i \in Ids |-> None]
    /\ pager = NoPages

\* the filter modal is submitted: its errors are shown, or the first page of results
handle_tasks_filter_submission ==
    /\ \E range_option \in RangeOptions, status_value \in StatusValues, user \in {"U3"} :
       \E start_date \in DatesFor(range_option), end_date \in DatesFor(range_option) :
         LET args == <<range_option, start_date, end_date>>
             range == CalculateDateRange(range_option, start_date, end_date)
             filters == [status |-> IF status_value \in {"completed", "pending"}
                                    THEN status_value ELSE "any",
                         start |-> range.start, end |-> range.end, page_size |-> 5]
             got == FetchTasksPage(tasks, filters, 1)
         IN IF range_option = ""
            THEN /\ event' = Event("filter_submission", user, NoId, args,
                                   "choose a date range", {}, {}, "", {})
                 /\ last' = Call("none", NoId, << >>, << >>, "")
                 /\ pager' = pager
            ELSE IF range.error # ""
            THEN /\ event' = Event("filter_submission", user, NoId, args,
                                   range.error, {}, {}, "", {})
                 /\ last' = Call("none", NoId, << >>, << >>, "")
                 /\ pager' = pager
            ELSE /\ event' = Event("filter_submission", user, NoId, args,
                                   "results", {}, {}, "", {})
                 /\ last' = Call("_fetch_tasks_page", NoId, <<1>>, got.tasks, "")
                 /\ pager' = [status |-> filters.status, start |-> filters.start,
                              end |-> filters.end, page_size |-> filters.page_size,
                              page |-> 1, rows |-> got.tasks, total |-> got.total]
    /\ UNCHANGED <<tasks, seq, clock, cleared, slack, handlers>>

\* a page button of the results view: the filters come back in the view's metadata;
\* without a results view there are none and the handler returns
handle_tasks_results_page ==
    /\ \E page \in 1..2, user \in {"U3"} :
         LET got == FetchTasksPage(tasks, Filters(pager), page)
         IN IF pager.page = 0
            THEN /\ event' = Event("results_page", user, NoId, <<page>>, "", {}, {}, "", {})
                 /\ last' = Call("none", NoId, << >>, << >>, "")
                 /\ pager' = pager
            ELSE /\ last' = Call("_fetch_tasks_page", NoId, <<page>>, got.tasks, "")
                 /\ \/ /\ event' = Event("results_page", user, NoId, <<page>>, "results",
                                          {}, {}, "", {})
                       /\ pager' = [pager EXCEPT !.page = page, !.rows = got.tasks,
                                                 !.total = got.total]
                    \/ /\ event' = Event("results_page", user, NoId, <<page>>, "",
                                          {}, {}, "", {"views_update"})
                       /\ pager' = pager
    /\ UNCHANGED <<tasks, seq, clock, cleared, slack, handlers>>

FilterNext ==
    \/ handle_tasks_filter_submission
    \/ handle_tasks_results_page

FilterSpec == FilterInit /\ [][FilterNext]_vars

\* ---------------------------------------------------------------- creation texts

\* what a text is made of: mention tokens, the blank, a letter
Tokens == {"<@B>", "<@U1>", "<@U2>", " ", "f"}

\* the strings of at most MaxLen tokens over an alphabet
StringsOver(alphabet) == UNION {[1..n -> alphabet] : n \in 0..MaxLen}

\* the texts an app_mention event may carry
MentionTexts == StringsOver(Tokens)

\* what the title field of the modal may hold
TitleInputs == {NoText} \cup {Text(str) : str \in StringsOver({" ", "f"})}

\* an app_mention event with any text
app_mention_text == HandleAppMention(MentionTexts)

\* a create-task modal submitted with any title
modal_submission_title == HandleModalSubmission(TitleInputs, ModalDescriptions)

CreationNext ==
    \/ app_mention_text
    \/ modal_submission_title

\* a store whose earlier tasks have all been deleted: the texts are tried on the next
\* task created
CreationInit ==
    /\ slack = NoSlack
    /\ event = NoEvent
    /\ handlers = NoHandlers
    /\ tasks = << >>
    /\ seq = MaxTasks - 1
    /\ clock = 0
    /\ last = Call("init", NoId, << >>, << >>, "")
    /\ cleared = [i \in Ids |-> None]
    /\ pager = NoPages

CreationSpec == CreationInit /\ [][CreationNext]_vars

\* ---------------------------------------------------------------- claims on the store

Completed(row) == row.developer_checked /\ row.project_manager_checked

\* C1: in every reachable state of the store every stored task has completed_at
\* present exactly when developer_checked and project_manager_checked are both true.
C1_CompletedIffBothChecked ==
    \A id \in DOMAIN tasks : (tasks[id].completed_at # None) <=> Completed(tasks[id])

\* a store that all four mutating calls have acted on: a row was deleted, one
\* completion was cleared, and a completed row carries a message reference
C1_Witness ==
    /\ Cardinality(DOMAIN tasks) < seq
    /\ \E id \in Ids : cleared[id] # None
    /\ \E id \in DOMAIN tasks : tasks[id].completed_at # None /\ tasks[id].message_ts # None

\* C3: every create_task returns a task with completed_at absent, both flags false and
\* message_ts absent, carrying the arguments it was given, and a get_task on its id that
\* follows returns that same task.
C3_CreateReturnsFreshTask ==
    [][/\ last'.op = "create_task" =>
            /\ Len(last'.ret) = 1
            /\ last'.ret[1].id = last'.id
            /\ last'.ret[1].completed_at = None
            /\ last'.ret[1].developer_checked = FALSE
            /\ last'.ret[1].project_manager_checked = FALSE
            /\ last'.ret[1].message_ts = None
            /\ last'.ret[1].created_at = clock
            /\ <<last'.ret[1].title, last'.ret[1].description,
                 last'.ret[1].developer_id, last'.ret[1].project_manager_id>> \in Requests
            /\ GetTask(tasks', last'.id).ret = last'.ret
       /\ (last.op = "create_task" /\ last'.op = "get_task" /\ last'.id = last.id) =>
            (last'.err = "" /\ last'.ret = last.ret)]_vars

\* a get_task has returned the second task right after its creation
C3_Witness ==
    /\ last.op = "get_task"
    /\ last.id = 2
    /\ last.err = ""
    /\ last.ret[1].created_at = clock
    /\ last.ret[1].message_ts = None
    /\ 1 \in DOMAIN tasks

\* the step is a successful update_checkmarks call on task last'.id
UpdateStep == last'.op = "update_checkmarks" /\ last'.err = ""

\* C4: update_checkmarks(id, true, true) leaves completed_at present, and equal to the
\* stored value T when one is stored, however far the clock has advanced; an
\* update_checkmarks with either flag false leaves completed_at absent.
C4_CompletionTimeKept ==
    [][UpdateStep =>
        LET id == last'.id
            both == last'.args[1] /\ last'.args[2]
        IN /\ both => tasks'[id].completed_at # None
           /\ (both /\ tasks[id].completed_at # None) =>
                  tasks'[id].completed_at = tasks[id].completed_at
           /\ ~both => tasks'[id].completed_at = None
           /\ last'.ret = <<tasks'[id]>>]_vars

\* update_checkmarks(true, true) has returned a completion time older than the clock
C4_Witness ==
    /\ last.op = "update_checkmarks"
    /\ last.args = <<TRUE, TRUE>>
    /\ last.err = ""
    /\ last.ret[1].completed_at # None
    /\ last.ret[1].completed_at < clock

\* C5: when a task whose completion at time T was cleared is set to both flags true
\* again, the new completed_at is the clock's value at that call, at least T and at
\* least created_at.
C5_RecompletionIsFresh ==
    [][(/\ UpdateStep
        /\ cleared[last'.id] # None
        /\ tasks[last'.id].completed_at = None
        /\ tasks'[last'.id].completed_at # None) =>
            /\ tasks'[last'.id].completed_at = clock
            /\ tasks'[last'.id].completed_at >= cleared[last'.id]
            /\ tasks'[last'.id].completed_at >= tasks[last'.id].created_at]_vars

\* a task completed again later than the completion that was cleared, itself later
\* than the creation
C5_Witness ==
    /\ last.op = "update_checkmarks"
    /\ last.err = ""
    /\ cleared[last.id] # None
    /\ tasks[last.id].completed_at # None
    /\ tasks[last.id].completed_at > cleared[last.id]
    /\ cleared[last.id] > tasks[last.id].created_at

\* C9: delete_task on an absent id fails with KeyError and leaves the store unchanged;
\* on an existing id it removes exactly that row, get_task on the id then fails with
\* KeyError, and every other row is unchanged.
C9_DeleteRemovesExactlyOne ==
    [][last'.op = "delete_task" =>
        IF last'.id \in DOMAIN tasks
        THEN /\ last'.err = ""
             /\ DOMAIN tasks' = DOMAIN tasks \ {last'.id}
             /\ \A i \in DOMAIN tasks' : tasks'[i] = tasks[i]
             /\ GetTask(tasks', last'.id).err = "KeyError"
        ELSE /\ last'.err = "KeyError"
             /\ tasks' = tasks]_vars

\* the first of two tasks has been deleted and the second is still stored
C9_Witness ==
    /\ last.op = "delete_task"
    /\ last.err = ""
    /\ last.id = 1
    /\ DOMAIN tasks = {2}

\* a delete_task on an id that was never or is no longer stored has failed
C9_WitnessAbsent ==
    /\ last.op = "delete_task"
    /\ last.err = "KeyError"
    /\ tasks # << >>

\* C15: for every task, id, developer_id, project_manager_id and created_at have the
\* same values in every state from its creation to its deletion, whatever checkmark
\* updates, message-reference updates and reads occur.
C15_AssignmentNeverChanges ==
    [][\A id \in DOMAIN tasks \cap DOMAIN tasks' :
          /\ tasks'[id].id = id
          /\ tasks[id].id = id
          /\ tasks'[id].developer_id = tasks[id].developer_id
          /\ tasks'[id].project_manager_id = tasks[id].project_manager_id
          /\ tasks'[id].created_at = tasks[id].created_at]_vars

\* the second task, created before the clock's last second, has been completed, cleared,
\* completed again and given a message reference, and the first task deleted
C15_Witness ==
    /\ last.op = "update_message_reference"
    /\ last.id = 2
    /\ DOMAIN tasks = {2}
    /\ tasks[2].message_ts # None
    /\ tasks[2].completed_at # None
    /\ cleared[2] # None
    /\ tasks[2].created_at < clock

\* C19: every create_task call returns an id that differs from the id of every task
\* created before it, deleted ones included: the new id is above sqlite_sequence, which
\* never decreases and is at least every id given so far; an id whose task was deleted
\* therefore stays absent and never addresses a later task.
C19_IdsNeverReused ==
    [][/\ seq' >= seq
       /\ DOMAIN tasks' \subseteq 1..seq'
       /\ \A id \in 1..seq : id \notin DOMAIN tasks => id \notin DOMAIN tasks'
       /\ last'.op = "create_task" =>
             /\ last'.id > seq
             /\ last'.id <= seq'
             /\ last'.id \notin DOMAIN tasks
             /\ last'.ret[1].id = last'.id
             /\ DOMAIN tasks' = DOMAIN tasks \cup {last'.id}]_vars

\* create_task has returned id 2 after the task with id 1, the only one stored until
\* then, was deleted
C19_Witness ==
    /\ last.op = "create_task"
    /\ last.id = 2
    /\ DOMAIN tasks = {2}
    /\ seq = 2

\* ---------------------------------------------------------------- claims on the queries

Range(rows) == {rows[k] : k \in 1..Len(rows)}

NoRepeat(rows) == \A k, l \in 1..Len(rows) : rows[k] = rows[l] => k = l

\* list_tasks with the given status and no bound, limit or offset
ListByStatus(status) == ListTasks(tasks, status, None, None, None, None)

\* the last call was list_tasks with no bound, limit or offset
PlainList ==
    /\ last.op = "list_tasks"
    /\ last.args = <<None, None>>
    /\ pager.start = None
    /\ pager.end = None

\* C6: in every store state list_tasks(status='completed') returns exactly the tasks
\* with both flags true, list_tasks(status='pending') exactly the tasks with not both
\* flags true, the two results are disjoint, and together they are the tasks that
\* list_tasks without a status returns.
C6_StatusPartition ==
    /\ Range(ListByStatus("completed")) = {tasks[i] : i \in {j \in DOMAIN tasks : Completed(tasks[j])}}
    /\ Range(ListByStatus("pending")) = {tasks[i] : i \in {j \in DOMAIN tasks : ~Completed(tasks[j])}}
    /\ Range(ListByStatus("completed")) \cap Range(ListByStatus("pending")) = {}
    /\ Range(ListByStatus("completed")) \cup Range(ListByStatus("pending"))
          = Range(ListByStatus("any"))
    /\ Len(ListByStatus("completed")) + Len(ListByStatus("pending")) = Len(ListByStatus("any"))
    /\ Range(ListByStatus("any")) = {tasks[i] : i \in DOMAIN tasks}
    /\ PlainList => last.ret = ListByStatus(pager.status)

\* list_tasks(status='pending') has returned a half-checked task and left a completed one out
C6_Witness ==
    /\ PlainList
    /\ pager.status = "pending"
    /\ \E k \in 1..Len(last.ret) :
          last.ret[k].developer_checked # last.ret[k].project_manager_checked
    /\ \E i \in DOMAIN tasks : Completed(tasks[i]) /\ tasks[i] \notin Range(last.ret)

C8_CountIsListLength ==
    /\ CountTasks(tasks, pager.status, pager.start, pager.end)
          = Len(ListTasks(tasks, pager.status, pager.start, pager.end, None, None))
    /\ last.op = "count_tasks" =>
          last.ret = <<Len(ListTasks(tasks, pager.status, pager.start, pager.end, None, None))>>

\* count_tasks has counted one of two stored tasks under a filter with both bounds
C8_Witness ==
    /\ last.op = "count_tasks"
    /\ last.ret = <<1>>
    /\ Cardinality(DOMAIN tasks) = 2
    /\ pager.start # None
    /\ pager.end # None
    /\ pager.status = "completed"

\* C20: for every store state and every filter, list_tasks returns exactly the tasks
\* that match the status filter and satisfy start <= created_at < end (each bound applied
\* only when given), ordered by created_at descending, newest first.
C20_ListFiltersAndOrders ==
    LET rows == ListTasks(tasks, pager.status, pager.start, pager.end, None, None)
        wanted == {i \in DOMAIN tasks :
                      /\ pager.status = "completed" =>
                            (tasks[i].developer_checked /\ tasks[i].project_manager_checked)
                      /\ pager.status = "pending" =>
                            (~tasks[i].developer_checked \/ ~tasks[i].project_manager_checked)
                      /\ pager.start # None => pager.start <= tasks[i].created_at
                      /\ pager.end # None => tasks[i].created_at < pager.end}
    IN /\ Range(rows) = {tasks[i] : i \in wanted}
       /\ Len(rows) = Cardinality(wanted)
       /\ \A k, l \in 1..Len(rows) : k < l => rows[k].created_at >= rows[l].created_at
       /\ (last.op = "list_tasks" /\ last.args = <<None, None>>) => last.ret = rows

\* list_tasks with both bounds has returned the task created at the lower bound and
\* left out the one created at the upper bound
C20_Witness ==
    /\ last.op = "list_tasks"
    /\ last.args = <<None, None>>
    /\ pager.start # None
    /\ pager.end # None
    /\ Len(last.ret) = 1
    /\ last.ret[1].created_at = pager.start
    /\ \E i \in DOMAIN tasks : tasks[i].created_at = pager.end

\* ---------------------------------------------------------------- claims on the controller

\* the step is a checkbox toggle on a stored task
ToggleStep == event'.handler = "checkbox" /\ event'.task_id \in DOMAIN tasks

\* C2: in a checkbox toggle on an existing task a flag whose requested value differs
\* from the stored one is changed only if the requester owns it (developer_id for
\* developer_checked, project_manager_id for project_manager_checked); otherwise the
\* flag keeps its stored value and the requester gets a permission warning, while a
\* change to the other flag, which the requester owns, is applied in the same event.
C2_OnlyOwnerChangesFlag ==
    [][ToggleStep =>
        LET old == tasks[event'.task_id]
            new == tasks'[event'.task_id]
            user == event'.user
            dev == event'.args[1]
            pm == event'.args[2]
        IN /\ event'.raised = ""
           /\ new.developer_checked # old.developer_checked => user = old.developer_id
           /\ new.project_manager_checked # old.project_manager_checked
                 => user = old.project_manager_id
           /\ (dev # old.developer_checked /\ user # old.developer_id) =>
                 /\ new.developer_checked = old.developer_checked
                 /\ "developer" \in event'.warnings
           /\ (pm # old.project_manager_checked /\ user # old.project_manager_id) =>
                 /\ new.project_manager_checked = old.project_manager_checked
                 /\ "project manager" \in event'.warnings
           /\ (dev # old.developer_checked /\ user = old.developer_id) =>
                 new.developer_checked = dev
           /\ (pm # old.project_manager_checked /\ user = old.project_manager_id) =>
                 new.project_manager_checked = pm]_vars

\* the developer asked for both flags: the developer flag is set, the project manager
\* flag is put back and the warning sent
C2_Witness ==
    /\ event.handler = "checkbox"
    /\ event.args = <<TRUE, TRUE>>
    /\ event.warnings = {"project manager"}
    /\ event.task_id \in DOMAIN tasks
    /\ event.user = tasks[event.task_id].developer_id
    /\ tasks[event.task_id].developer_checked
    /\ ~tasks[event.task_id].project_manager_checked
    /\ "developer done" \in event.notices

\* the step is a delete command naming a stored task
DeleteStep == event'.handler = "delete" /\ event'.task_id \in DOMAIN tasks

\* C10: a delete command removes the task only when the requester is its developer_id
\* or project_manager_id; from any other user it leaves the store, the task's message
\* and its channel as they were and the requester is answered with a refusal.
C10_OnlyOwnersDelete ==
    [][/\ (event'.handler = "delete" /\ tasks' # tasks) =>
            /\ event'.task_id \in DOMAIN tasks
            /\ event'.user \in {tasks[event'.task_id].developer_id,
                                tasks[event'.task_id].project_manager_id}
            /\ tasks' = Remove(tasks, event'.task_id)
       /\ (DeleteStep /\ event'.user \notin {tasks[event'.task_id].developer_id,
                                            tasks[event'.task_id].project_manager_id}) =>
            /\ tasks' = tasks
            /\ slack' = slack
            /\ event'.notices = {}
            /\ event'.reply = "refused"
       /\ (DeleteStep /\ event'.user \in {tasks[event'.task_id].developer_id,
                                         tasks[event'.task_id].project_manager_id}) =>
            /\ event'.task_id \notin DOMAIN tasks'
            /\ event'.reply = "deleted"]_vars

\* a user who is neither the developer nor the project manager was refused, and the
\* task with its posted message is still there
C10_Witness ==
    /\ event.handler = "delete"
    /\ event.reply = "refused"
    /\ event.task_id \in DOMAIN tasks
    /\ tasks[event.task_id].message_ts \in DOMAIN slack.messages
    /\ Cardinality(DOMAIN tasks) = 2

\* C11: in a checkbox toggle the "developer marked complete" notification is sent only
\* when developer_checked goes from false to true in that event, the "project manager
\* approved" notification only when project_manager_checked goes from false to true,
\* the "fully completed" notification only when the task goes from not completed to
\* completed; none is sent for a flag that is unchanged, unchecked, or whose requested
\* change was put back for lack of permission.
C11_NoticesOnRisingEdges ==
    [][ToggleStep =>
        LET old == tasks[event'.task_id]
            new == tasks'[event'.task_id]
            user == event'.user
            dev == event'.args[1]
            pm == event'.args[2]
        IN /\ "developer done" \in event'.notices =>
                 (~old.developer_checked /\ new.developer_checked)
           /\ "approved" \in event'.notices =>
                 (~old.project_manager_checked /\ new.project_manager_checked)
           /\ "completed" \in event'.notices => (~Completed(old) /\ Completed(new))
           /\ (dev # old.developer_checked /\ user # old.developer_id) =>
                 "developer done" \notin event'.notices
           /\ (pm # old.project_manager_checked /\ user # old.project_manager_id) =>
                 "approved" \notin event'.notices
           /\ event'.notices \subseteq {"developer done", "approved", "completed"}]_vars

\* the project manager asked for both flags of a task whose developer is someone else
\* and had checked before: the approval and the completion are announced, the
\* developer's flag, unchanged, is not
C11_Witness ==
    /\ event.handler = "checkbox"
    /\ event.args = <<TRUE, TRUE>>
    /\ event.task_id \in DOMAIN tasks
    /\ event.user = tasks[event.task_id].project_manager_id
    /\ event.user # tasks[event.task_id].developer_id
    /\ event.notices = {"approved", "completed"}
    /\ event.warnings = {}

\* the step creates a task from a mention or from the modal
Creates == event'.handler \in {"app_mention", "modal_submission"} /\ event'.task_id # NoId

\* the step handles an event that names a task the store does not hold
NamesAbsentTask ==
    /\ event'.handler \in {"delete", "show", "checkbox"}
    /\ event'.task_id # NoId
    /\ event'.task_id \notin DOMAIN tasks

\* C13: every inbound event that names a task id absent from the store (delete command,
\* show command, checkbox toggle, also a toggle that arrives after the task was
\* deleted) ends with a not-found answer to the user, lets no error escape its handler
\* and leaves the store unchanged.
C13_AbsentTaskIsNotFound ==
    [][NamesAbsentTask =>
        /\ event'.reply = "not found"
        /\ event'.raised = ""
        /\ tasks' = tasks]_vars

\* C14: when an outbound messaging call fails during an event, the storage mutation of
\* that event stays committed: a task whose first post fails remains in the store with
\* message_ts absent, a toggle whose message update or notification fails keeps the
\* new flags and completed_at, and a delete whose message removal or notification
\* fails keeps the row removed.
C14_FailedCallsKeepTheStore ==
    [][event'.failed # {} =>
        LET id == event'.task_id
        IN /\ Creates =>
                 /\ id \notin DOMAIN tasks
                 /\ id \in DOMAIN tasks'
                 /\ tasks'[id].message_ts = None
                 /\ tasks'[id].developer_id # NoUser
           /\ ToggleStep =>
                 /\ last'.op = "update_checkmarks"
                 /\ tasks'[id].developer_checked = last'.args[1]
                 /\ tasks'[id].project_manager_checked = last'.args[2]
                 /\ (event'.args[1] # tasks[id].developer_checked
                       /\ event'.user = tasks[id].developer_id) =>
                          tasks'[id].developer_checked = event'.args[1]
                 /\ (event'.args[2] # tasks[id].project_manager_checked
                       /\ event'.user = tasks[id].project_manager_id) =>
                          tasks'[id].project_manager_checked = event'.args[2]
                 /\ tasks'[id].completed_at =
                       IF ~Completed(tasks'[id]) THEN None
                       ELSE IF tasks[id].completed_at # None THEN tasks[id].completed_at
                       ELSE clock
                 /\ last'.ret = <<tasks'[id]>>
           /\ DeleteStep => id \notin DOMAIN tasks'
           /\ \A i \in (DOMAIN tasks \cap DOMAIN tasks') \ {id} : tasks'[i] = tasks[i]]_vars

\* a delete whose Slack calls failed has left the deleted task's message in the
\* workspace, next to a completed task whose own message was never posted
C14_Witness ==
    /\ event.handler = "delete"
    /\ event.failed = {"chat_delete", "chat_postMessage"}
    /\ event.task_id \notin DOMAIN tasks
    /\ \E ts \in DOMAIN slack.messages : slack.messages[ts].task_id = event.task_id
    /\ \E i \in DOMAIN tasks : tasks[i].message_ts = None /\ tasks[i].completed_at # None

\* C16: for every task, message_ts is absent from creation until the first successful
\* post of its message, is then set together with channel_id exactly once, and never
\* changes afterwards in any sequence of controller events.
C16_ReferenceSetOnce ==
    [][/\ \A id \in DOMAIN tasks \cap DOMAIN tasks' :
             /\ tasks'[id].message_ts = tasks[id].message_ts
             /\ tasks'[id].channel_id = tasks[id].channel_id
       /\ \A id \in DOMAIN tasks' \ DOMAIN tasks :
             IF "chat_postMessage" \in event'.failed
             THEN /\ tasks'[id].message_ts = None
                  /\ tasks'[id].channel_id = TasksChannel
                  /\ slack' = slack
             ELSE /\ tasks'[id].message_ts # None
                  /\ tasks'[id].message_ts \notin DOMAIN slack.messages
                  /\ tasks'[id].message_ts \in DOMAIN slack'.messages
                  /\ slack'.messages[tasks'[id].message_ts] =
                        [channel |-> tasks'[id].channel_id, task_id |-> id]]_vars

\* a toggle has completed the second task, which keeps the reference of its post,
\* while the first task, whose post failed, still has none
C16_Witness ==
    /\ event.handler = "checkbox"
    /\ event.task_id = 2
    /\ DOMAIN tasks = {1, 2}
    /\ tasks[1].message_ts = None
    /\ tasks[2].message_ts \in DOMAIN slack.messages
    /\ tasks[2].channel_id = PostedChannel
    /\ tasks[2].completed_at # None

\* ---------------------------------------------------------------- claims on the filter modal

\* the step is a filter submission with the custom date range
CustomStep == event'.handler = "filter_submission" /\ event'.args[1] = "custom"

\* C18: a filter submission with the custom date range fails with a validation error,
\* and runs no store query, when the start date is missing, the end date is missing or
\* the end date precedes the start date; in every other case it yields store bounds
\* whose lower bound is the start date, inclusive, and whose upper bound is exclusive:
\* the tasks counted are those created from the first second of the start date up to,
\* not including, the first second after the end date.
C18_CustomRangeValidated ==
    [][CustomStep =>
        LET start_date == event'.args[2]
            end_date == event'.args[3]
        IN IF start_date = None \/ end_date = None \/ end_date < start_date
           THEN /\ event'.reply \in {"select both", "end before start"}
                /\ last'.op \notin {"_fetch_tasks_page", "list_tasks", "count_tasks"}
                /\ pager' = pager
           ELSE /\ event'.reply = "results"
                /\ pager'.start = start_date * DayLength
                /\ pager'.end = (end_date + 1) * DayLength
                /\ pager'.end > pager'.start
                /\ pager'.status = "any" =>
                      /\ pager'.total =
                            Cardinality({i \in DOMAIN tasks :
                                            /\ tasks[i].created_at >= start_date * DayLength
                                            /\ tasks[i].created_at < (end_date + 1) * DayLength})
                      /\ Range(pager'.rows) =
                            {tasks[i] : i \in {j \in DOMAIN tasks :
                                            /\ tasks[j].created_at >= start_date * DayLength
                                            /\ tasks[j].created_at < (end_date + 1) * DayLength}}]_vars

\* a custom range of the single day 0 has listed the task created in the first second
\* of that day and left out the one created in the first second of the next day
C18_Witness ==
    /\ event.handler = "filter_submission"
    /\ event.args = <<"custom", 0, 0>>
    /\ event.reply = "results"
    /\ pager.status = "any"
    /\ pager.total = 1
    /\ Len(pager.rows) = 1
    /\ pager.rows[1].created_at = 0
    /\ \E i \in DOMAIN tasks : tasks[i].created_at = DayLength

\* ---------------------------------------------------------------- claims on creation texts

\* the step creates a task from a mention
MentionCreates == event'.handler = "app_mention" /\ event'.task_id # NoId

\* the places of text that mention a user who is neither the bot nor user
MentionsOfOthers(text, user) ==
    {k \in 1..Len(text) : IsMention(text[k]) /\ MentionId[text[k]] \notin {BotUser, user}}

\* the smallest of a non-empty set of places
Least(S) == CHOOSE k \in S : \A l \in S : k <= l

\* C12: for every creation text the developer_id is the first mentioned user that is
\* not the bot; the project_manager_id is the second distinct non-bot mentioned user (a
\* mention that differs from the developer) when one is present, and is developer_id
\* otherwise.
C12_MentionsBecomeAssignees ==
    [][MentionCreates =>
        LET text == event'.args[1]
            task == tasks'[event'.task_id]
            developer == MentionId[text[Least(MentionsOfOthers(text, BotUser))]]
            others == MentionsOfOthers(text, developer)
        IN /\ task.developer_id = developer
           /\ task.project_manager_id =
                 IF others # {} THEN MentionId[text[Least(others)]] ELSE developer]_vars

\* str holds nothing but blanks
Blank(str) == \A k \in 1..Len(str) : str[k] = " "

\* the title text an event supplies: the mention's text without its mention tokens, the
\* modal's title field
Supplied(ev) ==
    IF ev.handler = "app_mention"
    THEN SelectSeq(ev.args[1], LAMBDA tok : ~IsMention(tok))
    ELSE IF ev.args[1] = NoText THEN Empty ELSE ev.args[1][1]

\* C17: every task created through the controller (mention or create-task modal) has a
\* non-empty title: when the supplied title text is missing, empty or only whitespace,
\* the stored title is the placeholder text.
C17_TitleNeverEmpty ==
    [][Creates =>
        /\ tasks'[event'.task_id].title # Empty
        /\ Blank(Supplied(event')) => tasks'[event'.task_id].title = NewTask]_vars

\* ---------------------------------------------------------------- claims on the toggles

\* the checkbox event in which the owner of one flag of task id asks for value wanted
\* of that flag and for the stored value of the other one
OwnerAsks(id, flag, wanted) ==
    IF flag = "developer"
    THEN HandleCheckboxAction(id, tasks[id].developer_id, wanted,
                              tasks[id].project_manager_checked)
    ELSE HandleCheckboxAction(id, tasks[id].project_manager_id,
                              tasks[id].developer_checked, wanted)

\* the event leaves the flag with the value asked for and the other flag as it was, and
\* the task completed exactly when both flags are true
OwnerGets(id, flag, wanted) ==
    /\ OwnerAsks(id, flag, wanted)
    /\ UNCHANGED cleared
    /\ DOMAIN tasks' = DOMAIN tasks
    /\ tasks'[id].developer_checked =
          (IF flag = "developer" THEN wanted ELSE tasks[id].developer_checked)
    /\ tasks'[id].project_manager_checked =
          (IF flag = "developer" THEN tasks[id].project_manager_checked ELSE wanted)
    /\ Completed(tasks'[id]) =
          (tasks'[id].developer_checked /\ tasks'[id].project_manager_checked)

\* C21: the flag states of a task have no terminal state.  In every state, for every
\* stored task, each flag and each value, the toggle of the flag's owner that asks for
\* that value can happen and leaves exactly that value, the other flag kept and the task
\* completed iff both flags are true.  Two such toggles, one per flag, lead from any
\* flag state to any of the four, and unchecking one flag of a completed task returns
\* it to pending with the other flag kept.
C21_TogglesAreReversible ==
    \A id \in DOMAIN tasks : \A flag \in {"developer", "project manager"} :
        \A wanted \in BOOLEAN : ENABLED OwnerGets(id, flag, wanted)

\* a completed task was returned to pending: its developer, who is not its project
\* manager, unchecked the developer flag and the project manager's flag was kept
C21_Witness ==
    \E id \in DOMAIN tasks :
        /\ event.handler = "checkbox" /\ event.task_id = id
        /\ event.user = tasks[id].developer_id
        /\ event.user # tasks[id].project_manager_id
        /\ event.args = <<FALSE, TRUE>>
        /\ cleared[id] # None
        /\ ~tasks[id].developer_checked /\ tasks[id].project_manager_checked
        /\ tasks[id].completed_at = None

\* ---------------------------------------------------------------- claims on handlers side by side

\* every thread has handled its event
AllDone == \A h \in Handlers : handlers[h].pc = "done"

\* the value of a flag in a row or in a pair of flags
FlagOf(row, flag) ==
    IF flag = "developer" THEN row.developer_checked ELSE row.project_manager_checked

Asked(l, flag) == IF flag = "developer" THEN l.args[1] ELSE l.args[2]

OwnerOf(row, flag) ==
    IF flag = "developer" THEN row.developer_id ELSE row.project_manager_id

\* thread h toggled task id to the end; Changed: it made a permitted change of the flag
Toggled(h, id) ==
    /\ handlers[h].handler = "checkbox" /\ handlers[h].task_id = id
    /\ handlers[h].pc = "done" /\ handlers[h].raised = ""

Changed(h, flag) ==
    /\ Asked(handlers[h], flag) # FlagOf(handlers[h].task[1], flag)
    /\ handlers[h].user = OwnerOf(handlers[h].task[1], flag)

\* C22: when the checkbox handlers of one task have run side by side, each flag that
\* some of them changed with permission holds a value one of those changes asked for,
\* and a flag none of them changed with permission holds the value they read.
C22_TogglesAreNotLost ==
    \A id \in DOMAIN tasks :
        (\A h \in Handlers : Toggled(h, id)) =>
            \A flag \in {"developer", "project manager"} :
                IF \E h \in Handlers : Changed(h, flag)
                THEN \E h \in Handlers :
                        /\ Changed(h, flag)
                        /\ FlagOf(tasks[id], flag) = Asked(handlers[h], flag)
                ELSE \A h \in Handlers :
                        FlagOf(tasks[id], flag) = FlagOf(handlers[h].task[1], flag)

\* thread h handled a delete of task id from a user it did not refuse
Deleter(h, id) ==
    /\ handlers[h].handler = "delete" /\ handlers[h].task_id = id
    /\ handlers[h].reply # "refused"

\* the delete went through: row, message and notification
Removed(l) ==
    /\ l.reply = "deleted"
    /\ l.notices = {"deleted"}
    /\ l.removed = (l.task[1].message_ts # None)

\* the delete ended with the not-found reply and nothing else
FoundNone(l) == l.reply = "not found" /\ l.notices = {} /\ ~l.removed

\* C23: when every event has been handled and several of them were deletes of one
\* task that was there for one of them, the task is gone, exactly one of these deletes
\* removed the row, called for the removal of the message and posted the notification,
\* and every other one ended with the not-found reply, no notification and no removal.
C23_OneDeleteWins ==
    \A id \in Ids :
        LET deleters == {h \in Handlers : Deleter(h, id)}
        IN (AllDone /\ Cardinality(deleters) > 1
                    /\ \E h \in deleters : handlers[h].task # << >>) =>
              /\ id \notin DOMAIN tasks
              /\ \E h \in deleters :
                    /\ Removed(handlers[h])
                    /\ \A other \in deleters \ {h} : FoundNone(handlers[other])

\* two deletes of one task raced: both read the task and passed the permission test,
\* one deleted the row, the other one's delete_task found none
C23_Witness ==
    \E id \in Ids : \E h, other \in Handlers :
        /\ AllDone /\ h # other
        /\ Deleter(h, id) /\ Deleter(other, id)
        /\ handlers[h].task # << >> /\ handlers[other].task # << >>
        /\ Removed(handlers[h])
        /\ FoundNone(handlers[other])
        /\ id \notin DOMAIN tasks

====
